---- MODULE Spec2Model ----
(***************************************************************************)
(* A model of scripts/plants_websites_crawl.py: the URL helpers, the       *)
(* breadth-first site crawl (crawl_for_keywords_async), the retrying       *)
(* fetcher (fetch_with_retry) and the merge of a crawl's result into a     *)
(* record's certification cells (process_df_with_sites).                   *)
(*                                                                         *)
(* A URL is held the way urlparse() splits it: scheme, netloc, path,       *)
(* params, query, fragment.  netloc and path are sequences of tokens, one  *)
(* token per run of characters that the code never looks inside ("/" is    *)
(* always a token of its own, so endswith('/'), endswith('/index.html')    *)
(* and rsplit('/', 1) are decided on tokens exactly as on characters).     *)
(* The query is the list query.split('&') yields, one record per           *)
(* parameter: its name and whether it carries an '=' sign.                 *)
(***************************************************************************)
EXTENDS Integers, Sequences, FiniteSets, TLC

VARIABLES
    normIn,     \* SpecNorm: the URL first handed to normalize_url
    normPrev,   \* SpecNorm: the argument of the latest normalize_url call
    normOut,    \* SpecNorm: the value the latest normalize_url call returned
    normCalls,  \* SpecNorm: how many times normalize_url has been applied
    crawl,      \* SpecCrawl: the locals of one crawl_for_keywords_async call
    retry,      \* SpecRetry: the locals of one fetch_with_retry call
    cell,       \* SpecMerge: one certification cell of one record
    merges,     \* SpecMerge: the found-URL sets merged into the cell so far
    awaited,    \* SpecRun: how many crawls of the run have been awaited (n)
                \* and the URLs the finished ones had visited (visited)
    orch        \* SpecBatch: the locals of one process_df_with_sites call

vars == <<normIn, normPrev, normOut, normCalls, crawl, retry, cell, merges,
          awaited, orch>>

normVars == <<normIn, normPrev, normOut, normCalls>>

-----------------------------------------------------------------------------
(* Bounds of the model *)

\* longest path, in tokens, of a URL handed to normalize_url
MaxPathLen == 5

\* most query parameters of a URL handed to normalize_url
MaxQueryLen == 2

\* the crawls awaited one after the other in SpecRun, and the max_depth and
\* limit_pages each of them is called with
MaxCrawls == 2

RunDepth == 1

RunLimit == 1

-----------------------------------------------------------------------------
(* Strings *)

\* str.lower() on one token
LowerTok(t) ==
    CASE t = "A" -> "a"
      [] t = "Index.html" -> "index.html"
      [] t = "Example.COM" -> "example.com"
      [] t = "HTML" -> "html"
      [] t = "ASC" -> "asc"
      [] t = "A.S.C." -> "a.s.c."
      [] t = "Aquaculture Stewardship Council" -> "aquaculture stewardship council"
      [] t = "BAP" -> "bap"
      [] t = "Best Aquaculture Practices" -> "best aquaculture practices"
      [] t = "Global Seafood Alliance" -> "global seafood alliance"
      [] t = "Friend of the Sea" -> "friend of the sea"
      [] t = "FOS" -> "fos"
      [] t = "WSO" -> "wso"
      [] t = "World Sustainability Organization" -> "world sustainability organization"
      [] t = "FIP" -> "fip"
      [] t = "Fisheries Improvement Project" -> "fisheries improvement project"
      [] t = "Marin Trust" -> "marin trust"
      [] OTHER -> t

\* str.lower() on a token sequence
Lower(s) == [i \in 1..Len(s) |-> LowerTok(s[i])]

\* the Python test  a in b  on strings: a occurs in b as a contiguous run
Contains(b, a) ==
    \E i \in 0..(Len(b) - Len(a)) : SubSeq(b, i + 1, i + Len(a)) = a

-----------------------------------------------------------------------------
(* URLs *)

URL(scheme, netloc, path, params, query, fragment) ==
    [scheme |-> scheme, netloc |-> netloc, path |-> path,
     params |-> params, query |-> query, fragment |-> fragment]

\* the value clean_and_validate_url returns for a URL it rejects
None == URL("None", <<>>, <<>>, "", <<>>, "")

Param(name, eq) == [name |-> name, eq |-> eq]

blocked_params == {"utm_source", "utm_medium", "utm_campaign", "fbclid", "gclid"}

\* the loop over query.split('&'): a parameter is kept when it has an '='
\* sign and its name is not blocked
filtered_params(query) ==
    SelectSeq(query, LAMBDA p : p.eq /\ p.name \notin blocked_params)

\* path.endswith(('/index.html', '/index.php', '/index.asp'))
IndexFiles == {"index.html", "index.php", "index.asp"}

EndsWithIndex(path) ==
    /\ Len(path) >= 2
    /\ path[Len(path)] \in IndexFiles
    /\ path[Len(path) - 1] = "/"

\* path.rsplit('/', 1)[0] for a path that ends with '/index.*': everything
\* before the last '/'
StripIndex(path) ==
    IF EndsWithIndex(path) THEN SubSeq(path, 1, Len(path) - 2) ELSE path

\* if path.endswith('/') and len(path) > 1: path = path[:-1]
StripSlash(path) ==
    IF path # <<>> /\ path[Len(path)] = "/" /\ Len(path) > 1
    THEN SubSeq(path, 1, Len(path) - 1)
    ELSE path

normalize_url(u) ==
    URL(u.scheme,
        Lower(u.netloc),
        StripSlash(StripIndex(Lower(u.path))),
        u.params,
        filtered_params(u.query),
        "")

-----------------------------------------------------------------------------
(* SpecNorm: normalize_url applied to a URL, then to its own result *)

Range(s) == {s[i] : i \in 1..Len(s)}

SeqsUpTo(S, n) == UNION {[1..k -> S] : k \in 0..n}

PathTokens == {"/", "a", "A", "index.html"}

\* the paths urlparse yields for a URL with a netloc: empty, or starting
\* with '/'
NormPaths == {p \in SeqsUpTo(PathTokens, MaxPathLen) : p = <<>> \/ p[1] = "/"}

NormParams == {Param("utm_source", TRUE), Param("b", TRUE), Param("c", FALSE)}

NormURLs ==
    {URL("http", n, p, "", q, f) :
        n \in {<<"example.com">>, <<"Example.COM">>},
        p \in NormPaths,
        q \in SeqsUpTo(NormParams, MaxQueryLen),
        f \in {"", "top"}}

idleCrawl == [pc |-> "idle"]
idleRetry == [pc |-> "idle"]
idleOrch == [pc |-> "idle"]
noneAwaited == [n |-> 0, visited |-> {}]

InitNorm ==
    /\ normIn \in NormURLs
    /\ normPrev = normIn
    /\ normOut = normIn
    /\ normCalls = 0
    /\ crawl = idleCrawl
    /\ retry = idleRetry
    /\ cell = <<>>
    /\ merges = <<>>
    /\ awaited = noneAwaited
    /\ orch = idleOrch

\* one more call: normalize_url on the value the previous call returned
Normalize ==
    /\ normCalls < 2
    /\ normPrev' = normOut
    /\ normOut' = normalize_url(normOut)
    /\ normCalls' = normCalls + 1
    /\ UNCHANGED <<normIn, crawl, retry, cell, merges, awaited, orch>>

NextNorm == Normalize

SpecNorm == InitNorm /\ [][NextNorm]_vars

\* C6: normalize_url is idempotent: applied to its own result (the second
\* call) it returns its argument unchanged.
C6_NormalizeIdempotent == normCalls = 2 => normOut = normPrev

\* C22: the query of the result holds, in their order, exactly the
\* parameters of the argument that are not named utm_source, utm_medium,
\* utm_campaign, fbclid or gclid, those without an '=' sign included.
C22_OnlyTrackingParamsRemoved ==
    normCalls = 1 =>
        normOut.query =
            SelectSeq(normIn.query,
                      LAMBDA q : q.name \notin {"utm_source", "utm_medium",
                                                "utm_campaign", "fbclid", "gclid"})

-----------------------------------------------------------------------------
(* URL validation and the same-domain test *)

HostTokens == {"example.com", "Example.COM", "sub.", "other.com"}

\* if not url.startswith(('http://', 'https://')): url = 'http://' + url
\* A string with no scheme gains one; a string with another scheme
\* (javascript:void(0)) becomes http://javascript:void(0), whose netloc is
\* the old scheme and path.
WithProtocol(u) ==
    IF u.scheme \in {"http", "https"} THEN u
    ELSE IF u.scheme = "" THEN [u EXCEPT !.scheme = "http"]
    ELSE URL("http", <<u.scheme, ":">> \o u.path, <<>>, "", u.query, u.fragment)

\* validators.url(url): a scheme and a well-formed, non-empty host
validators_url_Any(u) == TRUE

validators_url(u) ==
    /\ u.scheme \in {"http", "https"}
    /\ u.netloc # <<>>
    /\ Range(u.netloc) \subseteq HostTokens

\* parse_url(url).url: the URL re-assembled, its host in lower case; the
\* path, the query and the fragment are kept as they are
parse_url(u) == [u EXCEPT !.netloc = Lower(@)]

clean_and_validate_url(u) ==
    IF validators_url(WithProtocol(u)) THEN parse_url(WithProtocol(u)) ELSE None

is_same_domain_exact(base_url, new_url) == base_url.netloc = new_url.netloc

\* base_domain in check_domain
is_same_domain(base_url, new_url) == Contains(new_url.netloc, base_url.netloc)

-----------------------------------------------------------------------------
(* Content extraction and keyword matching *)

Kinds == {"ASC Cert", "BAP Cert", "FOS Cert", "FIP Cert", "MarinTrust Cert"}

\* each keyword is one token: matching looks for the whole lower-cased
\* keyword in the lower-cased text
CERT_KEYWORDS ==
    [k \in Kinds |->
        CASE k = "ASC Cert" -> {"ASC", "A.S.C.", "Aquaculture Stewardship Council"}
          [] k = "BAP Cert" -> {"BAP", "Best Aquaculture Practices",
                                "Global Seafood Alliance"}
          [] k = "FOS Cert" -> {"Friend of the Sea", "FOS", "WSO",
                                "World Sustainability Organization"}
          [] k = "FIP Cert" -> {"FIP", "Fisheries Improvement Project"}
          [] k = "MarinTrust Cert" -> {"Marin Trust"}]

\* the PDF size cap of extract_text_from_pdf, in megabytes
PDF_LIMIT_MB == 10

extract_text_from_pdf_NoCap(pdf) == Lower(pdf.text)

\* extract_text_from_pdf: nothing from a body over the cap, else the
\* lower-cased text of the pages
extract_text_from_pdf(pdf) ==
    IF pdf.size > PDF_LIMIT_MB THEN <<>> ELSE Lower(pdf.text)

\* soup.get_text(separator=' ').lower()
html_text(html) == Lower(html.text)

\* for kw in kws: if kw.lower() in text
Matches(kind, text) ==
    \E kw \in CERT_KEYWORDS[kind] : Contains(text, <<LowerTok(kw)>>)

-----------------------------------------------------------------------------
(* crawl_for_keywords_async *)

\* the default of the parameter max_depth, which process_df_with_sites also
\* passes; the modelled crawls run with every max_depth from 0 up to it
DefaultMaxDepth == 2

\* politeness_delay, in milliseconds
politeness_delay == 500

\* largest limit_pages of a modelled crawl (the code's default is 50)
MaxLimitPages == 3

\* most links on one HTML page
MaxLinks == 2

\* http://example.com/a, the same page with a trailing slash, a page on a
\* subdomain, a page of another site, and an href that is no web address
SeedOK == URL("http", <<"example.com">>, <<"/", "a">>, "", <<>>, "")
PageASlash == URL("http", <<"example.com">>, <<"/", "a", "/">>, "", <<>>, "")
PageSub == URL("http", <<"sub.", "example.com">>, <<"/">>, "", <<>>, "")
PageOther == URL("http", <<"other.com">>, <<"/">>, "", <<>>, "")
Javascript == URL("javascript", <<>>, <<"void(0)">>, "", <<>>, "")

\* the URLs that hrefs of the modelled site resolve to (urljoin's results)
SiteURLs == {SeedOK, PageASlash, PageSub, PageOther, Javascript}

Seeds == {SeedOK, Javascript}

PageTexts == {<<>>, <<"Aquaculture Stewardship Council", "BAP">>}

PdfSizes == {1, 12}

Statuses == {404, 429}

\* the link lists of a page: its distinct link targets in document order
LinkLists ==
    {l \in SeqsUpTo(SiteURLs, MaxLinks) : Cardinality(Range(l)) = Len(l)}

\* what one session.get can bring: an exception, a status other than 200,
\* or a 200 whose body is HTML (text and links), a PDF, another content
\* type, or cannot be read
Responses ==
    {[type |-> "raise"]}
    \cup {[type |-> "status", status |-> st] : st \in Statuses}
    \cup {[type |-> "html", text |-> t, links |-> l] :
            t \in PageTexts, l \in LinkLists}
    \cup {[type |-> "pdf", text |-> t, size |-> z] : t \in PageTexts, z \in PdfSizes}
    \cup {[type |-> "other"], [type |-> "bodyraise"]}

Item(url, depth) == [url |-> url, depth |-> depth]

\* the locals after queue.put((seed_url, 0)), with the history of the
\* requests (gets), their outcomes
\* (statuses, with the kind of response), the sleeps in milliseconds
\* (sleeps), the links seen on fetched pages (edges), the depth of the
\* item queue.get() returned last (last_depth) and the pages handed to the
\* keyword scan (scans: the text extracted, the body's text and, for a PDF,
\* the body's size in megabytes)
NewCrawl(seed, max_depth, limit_pages) ==
    [pc |-> "running",
     seed_url |-> seed,
     max_depth |-> max_depth,
     limit_pages |-> limit_pages,
     queue |-> <<Item(seed, 0)>>,
     visited |-> {},
     pages_crawled |-> 0,
     found_urls_by_cert |-> [k \in Kinds |-> {}],
     current_url |-> None,
     depth |-> 0,
     gets |-> <<>>,
     statuses |-> <<>>,
     sleeps |-> <<>>,
     edges |-> {},
     last_depth |-> 0,
     scans |-> <<>>]

\* while not queue.empty(): the loop ends, the function returns
LoopExit(c) == [c EXCEPT !.pc = "done"]

\* if pages_crawled >= limit_pages: break
PageLimitHit_OffByOne(c) == c.pages_crawled > c.limit_pages

PageLimitHit(c) == c.pages_crawled >= c.limit_pages

Dequeue_NoVisitedCheck(c) ==
    LET item == Head(c.queue)
        rest == [c EXCEPT !.queue = Tail(@), !.last_depth = item.depth]
        cu == clean_and_validate_url(item.url)
        seen == [rest EXCEPT !.visited = @ \cup {cu}]
    IN  IF cu = None THEN rest
        ELSE IF item.depth > c.max_depth THEN rest
        ELSE IF ~is_same_domain(c.seed_url, cu) THEN seen
        ELSE IF PageLimitHit(c) THEN [seen EXCEPT !.pc = "done"]
        ELSE [seen EXCEPT !.pc = "fetching",
                          !.current_url = cu,
                          !.depth = item.depth,
                          !.sleeps = Append(@, politeness_delay),
                          !.gets = Append(@, Item(cu, item.depth))]

\* one pass from queue.get() to session.get(): the item is dropped
\* (continue), ends the loop (break), or is requested
Dequeue(c) ==
    LET item == Head(c.queue)
        rest == [c EXCEPT !.queue = Tail(@), !.last_depth = item.depth]
        cu == clean_and_validate_url(item.url)
        seen == [rest EXCEPT !.visited = @ \cup {cu}]
    IN  IF cu = None THEN rest
        ELSE IF item.depth > c.max_depth THEN rest
        ELSE IF cu \in c.visited THEN rest
        ELSE IF ~is_same_domain(c.seed_url, cu) THEN seen
        ELSE IF PageLimitHit(c) THEN [seen EXCEPT !.pc = "done"]
        ELSE [seen EXCEPT !.pc = "fetching",
                          !.current_url = cu,
                          !.depth = item.depth,
                          !.sleeps = Append(@, politeness_delay),
                          !.gets = Append(@, Item(cu, item.depth))]

\* found_urls_by_cert[cert_col].add(normalize_url(current_url)) for every
\* kind with a keyword in the text
Scan(c, text) ==
    [k \in Kinds |->
        IF Matches(k, text)
        THEN c.found_urls_by_cert[k] \cup {normalize_url(c.current_url)}
        ELSE c.found_urls_by_cert[k]]

ChildDepth_Same(depth) == depth

Enqueue_Front(c, links) ==
    IF c.depth < c.max_depth
    THEN [i \in 1..Len(SelectSeq(links, LAMBDA l : l \notin c.visited)) |->
            Item(SelectSeq(links, LAMBDA l : l \notin c.visited)[i], c.depth + 1)]
         \o c.queue
    ELSE c.queue

\* queue.put((child_url, depth + 1))
ChildDepth(depth) == depth + 1

\* if depth < max_depth: every link not in visited is queued
Enqueue(c, links) ==
    IF c.depth < c.max_depth
    THEN c.queue \o
         [i \in 1..Len(SelectSeq(links, LAMBDA l : l \notin c.visited)) |->
            Item(SelectSeq(links, LAMBDA l : l \notin c.visited)[i],
                 ChildDepth(c.depth))]
    ELSE c.queue

StatusOf(r) ==
    CASE r.type = "raise" -> 0
      [] r.type = "status" -> r.status
      [] OTHER -> 200

CountPage_Forgotten(c) == c.pages_crawled

\* pages_crawled += 1
CountPage(c) == c.pages_crawled + 1

Respond_FailureBreaks(c, r) ==
    LET back == [c EXCEPT !.pc = "running",
                          !.statuses = Append(@, [url |-> c.current_url,
                                                   status |-> StatusOf(r),
                                                   type |-> r.type])]
        counted == [back EXCEPT !.pages_crawled = CountPage(c)]
    IN  CASE r.type \in {"raise", "status"} -> [back EXCEPT !.pc = "done"]
          [] r.type \in {"other", "bodyraise"} -> counted
          [] r.type = "pdf" ->
                [counted EXCEPT !.found_urls_by_cert =
                                    Scan(c, extract_text_from_pdf(r)),
                                !.scans = Append(@, [url |-> c.current_url,
                                                     text |-> extract_text_from_pdf(r),
                                                     body |-> r.text,
                                                     size |-> r.size])]
          [] r.type = "html" ->
                [counted EXCEPT !.found_urls_by_cert = Scan(c, html_text(r)),
                                !.scans = Append(@, [url |-> c.current_url,
                                                     text |-> html_text(r),
                                                     body |-> r.text,
                                                     size |-> 0]),
                                !.queue = Enqueue(c, r.links),
                                !.edges = @ \cup
                                    {<<c.current_url, clean_and_validate_url(l)>> :
                                        l \in Range(r.links)}]

Respond_OtherScanned(c, r) ==
    LET back == [c EXCEPT !.pc = "running",
                          !.statuses = Append(@, [url |-> c.current_url,
                                                   status |-> StatusOf(r),
                                                   type |-> r.type])]
        counted == [back EXCEPT !.pages_crawled = CountPage(c)]
    IN  CASE r.type \in {"raise", "status"} -> back
          [] r.type = "bodyraise" -> counted
          [] r.type = "other" ->
                [counted EXCEPT !.found_urls_by_cert =
                                    [k \in Kinds |-> @[k] \cup {normalize_url(c.current_url)}]]
          [] r.type = "pdf" ->
                [counted EXCEPT !.found_urls_by_cert =
                                    Scan(c, extract_text_from_pdf(r)),
                                !.scans = Append(@, [url |-> c.current_url,
                                                     text |-> extract_text_from_pdf(r),
                                                     body |-> r.text,
                                                     size |-> r.size])]
          [] r.type = "html" ->
                [counted EXCEPT !.found_urls_by_cert = Scan(c, html_text(r)),
                                !.scans = Append(@, [url |-> c.current_url,
                                                     text |-> html_text(r),
                                                     body |-> r.text,
                                                     size |-> 0]),
                                !.queue = Enqueue(c, r.links),
                                !.edges = @ \cup
                                    {<<c.current_url, clean_and_validate_url(l)>> :
                                        l \in Range(r.links)}]

\* the body of  async with session.get(current_url) as resp
Respond(c, r) ==
    LET back == [c EXCEPT !.pc = "running",
                          !.statuses = Append(@, [url |-> c.current_url,
                                                   status |-> StatusOf(r),
                                                   type |-> r.type])]
        counted == [back EXCEPT !.pages_crawled = CountPage(c)]
    IN  CASE r.type \in {"raise", "status"} -> back
          [] r.type \in {"other", "bodyraise"} -> counted
          [] r.type = "pdf" ->
                [counted EXCEPT !.found_urls_by_cert =
                                    Scan(c, extract_text_from_pdf(r)),
                                !.scans = Append(@, [url |-> c.current_url,
                                                     text |-> extract_text_from_pdf(r),
                                                     body |-> r.text,
                                                     size |-> r.size])]
          [] r.type = "html" ->
                [counted EXCEPT !.found_urls_by_cert = Scan(c, html_text(r)),
                                !.scans = Append(@, [url |-> c.current_url,
                                                     text |-> html_text(r),
                                                     body |-> r.text,
                                                     size |-> 0]),
                                !.queue = Enqueue(c, r.links),
                                !.edges = @ \cup
                                    {<<c.current_url, clean_and_validate_url(l)>> :
                                        l \in Range(r.links)}]

InitCrawl ==
    /\ crawl \in {NewCrawl(s, d, n) :
                    s \in Seeds, d \in 0..DefaultMaxDepth, n \in 1..MaxLimitPages}
    /\ normIn = None /\ normPrev = None /\ normOut = None /\ normCalls = 0
    /\ retry = idleRetry
    /\ cell = <<>>
    /\ merges = <<>>
    /\ awaited = [n |-> 1, visited |-> {}]
    /\ orch = idleOrch

CrawlLoopExit ==
    /\ crawl.pc = "running"
    /\ crawl.queue = <<>>
    /\ crawl' = LoopExit(crawl)
    /\ UNCHANGED <<normVars, retry, cell, merges, awaited, orch>>

CrawlDequeue ==
    /\ crawl.pc = "running"
    /\ crawl.queue # <<>>
    /\ crawl' = Dequeue(crawl)
    /\ UNCHANGED <<normVars, retry, cell, merges, awaited, orch>>

CrawlRespond ==
    /\ crawl.pc = "fetching"
    /\ \E r \in Responses : crawl' = Respond(crawl, r)
    /\ UNCHANGED <<normVars, retry, cell, merges, awaited, orch>>

NextCrawl == CrawlLoopExit \/ CrawlDequeue \/ CrawlRespond

SpecCrawl == InitCrawl /\ [][NextCrawl]_vars

\* the event loop keeps running the coroutine, and every request ends: in
\* a response, an error, or the timeout of session.get
SpecCrawlFair == SpecCrawl /\ WF_vars(NextCrawl)

-----------------------------------------------------------------------------
(* Properties of one crawl (SpecCrawl) *)

GetIdx == 1..Len(crawl.gets)

Fetched(u) == \E i \in GetIdx : crawl.gets[i].url = u

\* the 200 responses so far
OkCount == Cardinality({i \in 1..Len(crawl.statuses) : crawl.statuses[i].status = 200})

\* the URLs within k links of the seed, over the links seen so far
RECURSIVE Reach(_)
Reach(k) ==
    IF k = 0 THEN {clean_and_validate_url(crawl.seed_url)}
    ELSE LET near == Reach(k - 1)
         IN  near \cup {e[2] : e \in {x \in crawl.edges : x[1] \in near}}

\* u is on a subdomain of the seed's host
OnSubdomain(u) ==
    LET base == crawl.seed_url.netloc
        n == Len(u.netloc)
    IN  n > Len(base) /\ SubSeq(u.netloc, n - Len(base) + 1, n) = base

\* C1: no two GET requests of one crawl are for URLs whose normalize_url
\* forms are equal.
C1_NormalizedURLFetchedOnce ==
    \A i, j \in GetIdx :
        i # j => normalize_url(crawl.gets[i].url) # normalize_url(crawl.gets[j].url)

\* C2: every requested URL was dequeued with depth <= max_depth and lies
\* within max_depth links of the seed.
C2_DepthBound ==
    LET near == Reach(crawl.max_depth)
    IN  \A i \in GetIdx :
            /\ crawl.gets[i].depth <= crawl.max_depth
            /\ crawl.gets[i].url \in near

\* a finished crawl that fetched a page at depth max_depth, found on it a
\* link to a page of the site, and left that page unfetched although the
\* page limit was never reached
C2_Witness ==
    /\ crawl.pc = "done"
    /\ crawl.max_depth >= 1
    /\ crawl.pages_crawled < crawl.limit_pages
    /\ \E i \in GetIdx :
        /\ crawl.gets[i].depth = crawl.max_depth
        /\ \E e \in crawl.edges :
            /\ e[1] = crawl.gets[i].url
            /\ e[2] # None
            /\ is_same_domain(crawl.seed_url, e[2])
            /\ ~Fetched(e[2])

\* C3 as stated: the GET requests of a crawl, whatever they bring, number at
\* most limit_pages.
C3_AttemptsWithinLimit == Len(crawl.gets) <= crawl.limit_pages

\* C3 as amended: the GET requests answered with status 200 number at most
\* limit_pages.
C3_OkFetchesWithinLimit == OkCount <= crawl.limit_pages

\* limit_pages pages fetched with status 200, and more requests than that
C3_Witness ==
    /\ OkCount = crawl.limit_pages
    /\ Len(crawl.gets) > crawl.limit_pages

\* C4: pages_crawled never exceeds limit_pages, and once it equals
\* limit_pages no request is in flight and none has been issued since the
\* 200 response that reached the limit.
C4_PageLimitStops ==
    /\ crawl.pages_crawled <= crawl.limit_pages
    /\ crawl.pages_crawled = crawl.limit_pages =>
        /\ crawl.pc # "fetching"
        /\ Len(crawl.gets) = Len(crawl.statuses)
        /\ crawl.statuses[Len(crawl.statuses)].status = 200

\* the crawl has ended at the page limit with items left in the queue
C4_Witness ==
    /\ crawl.pc = "done"
    /\ crawl.pages_crawled = crawl.limit_pages
    /\ crawl.queue # <<>>

\* C5: every requested URL has a host that contains the seed's host; and
\* when the crawl has ended without reaching the page limit, every URL on a
\* subdomain of the seed's host that a fetched HTML page above max_depth
\* links to has been requested.
C5_SameDomain ==
    /\ \A i \in GetIdx :
        Contains(crawl.gets[i].url.netloc, crawl.seed_url.netloc)
    /\ (crawl.pc = "done" /\ crawl.pages_crawled < crawl.limit_pages) =>
        \A e \in crawl.edges :
            (/\ \E i \in GetIdx : /\ crawl.gets[i].url = e[1]
                                  /\ crawl.gets[i].depth < crawl.max_depth
             /\ e[2] # None
             /\ OnSubdomain(e[2]))
            => Fetched(e[2])

\* a finished crawl in which fetched pages linked to the other site and to
\* the subdomain, and the subdomain page was requested
C5_Witness ==
    /\ crawl.pc = "done"
    /\ crawl.pages_crawled < crawl.limit_pages
    /\ \E e \in crawl.edges : e[2] = PageOther
    /\ \E e \in crawl.edges : e[2] = PageSub
    /\ Fetched(PageSub)

\* the backoff waits of a crawl: its sleeps other than the politeness delay
BackoffSleeps == SelectSeq(crawl.sleeps, LAMBDA w : w # politeness_delay)

SeedRequests ==
    {i \in GetIdx : crawl.gets[i].url = clean_and_validate_url(crawl.seed_url)}

\* C9: when every fetch of the seed returned 429, the finished crawl has
\* made 3 GET attempts on the seed with backoff waits of 1 s, 2 s and 4 s,
\* has crawled zero pages and returns an empty set for every kind.
C9_Seed429Retried ==
    (/\ crawl.pc = "done"
     /\ crawl.statuses # <<>>
     /\ \A i \in 1..Len(crawl.statuses) : crawl.statuses[i].status = 429)
    =>
    /\ Cardinality(SeedRequests) = 3
    /\ BackoffSleeps = <<1000, 2000, 4000>>
    /\ crawl.pages_crawled = 0
    /\ \A k \in Kinds : crawl.found_urls_by_cert[k] = {}


\* C17: the depths of the items taken from the queue never decrease: each
\* dequeued item is at least as deep as the one dequeued before it.
C17_BreadthFirst == [][crawl'.last_depth >= crawl.last_depth]_vars

\* items of depth 0, 1 and 2 have been dequeued and requested in that order
C17_Witness ==
    /\ crawl.last_depth = 2
    /\ Len(crawl.gets) = 3
    /\ \A i \in 1..3 : crawl.gets[i].depth = i - 1

ScanIdx == 1..Len(crawl.scans)

\* a keyword of the kind occurs in the text, whatever the case of either
KeywordIn(kind, text) ==
    \E kw \in CERT_KEYWORDS[kind] : Contains(Lower(text), Lower(<<kw>>))

\* C20: for every HTML or PDF page fetched with status 200 and every kind,
\* the page's normalized URL is in the kind's result set exactly when a
\* keyword of the kind occurs in the page's extracted text; and every URL of
\* a result set is the normalized URL of such a page.
C20_ResultIffKeyword ==
    /\ \A i \in ScanIdx : \A k \in Kinds :
          normalize_url(crawl.scans[i].url) \in crawl.found_urls_by_cert[k]
              <=> KeywordIn(k, crawl.scans[i].text)
    /\ \A k \in Kinds : \A u \in crawl.found_urls_by_cert[k] :
          \E i \in ScanIdx : normalize_url(crawl.scans[i].url) = u



\* C21: the step that brings a PDF body of more than 10 MB extracts no
\* text, adds no URL to any result set, and leaves the loop running over
\* the same queue.
C21_OversizedPdfSkipped ==
    [][(/\ Len(crawl'.scans) = Len(crawl.scans) + 1
        /\ crawl'.scans[Len(crawl'.scans)].size > 10)
       => /\ crawl'.scans[Len(crawl'.scans)].text = <<>>
          /\ crawl'.found_urls_by_cert = crawl.found_urls_by_cert
          /\ crawl'.queue = crawl.queue
          /\ crawl'.pc = "running"]_vars

\* the seed's page linked to a 12 MB PDF that contains "BAP"; 'BAP Cert'
\* is empty and the page queued after the PDF has been requested
C21_Witness ==
    /\ Len(crawl.scans) >= 2
    /\ crawl.scans[2].size = 12
    /\ Contains(crawl.scans[2].body, <<"BAP">>)
    /\ crawl.found_urls_by_cert["BAP Cert"] = {}
    /\ Len(crawl.gets) = 3
    /\ crawl.gets[2].url = crawl.scans[2].url

\* C23: a crawl whose seed is no web address issues no request, sleeps
\* for none, and holds an empty set for every kind, up to its return.
C23_InvalidSeedNoRequest ==
    crawl.seed_url.scheme \notin {"", "http", "https"} =>
        /\ crawl.gets = <<>>
        /\ crawl.sleeps = <<>>
        /\ crawl.pc \in {"running", "done"}
        /\ \A k \in Kinds : crawl.found_urls_by_cert[k] = {}

\* the crawl seeded with javascript:void(0) has returned
C23_Witness ==
    /\ crawl.seed_url = Javascript
    /\ crawl.pc = "done"
    /\ crawl.queue = <<>>
    /\ crawl.visited = {}


StatusIdx == 1..Len(crawl.statuses)

\* C24: the step that brings a failed fetch (an exception or a status
\* other than 200) leaves the loop running with the result sets, the queue,
\* the visited set and the page count as they were; and when the crawl has
\* ended below the page limit, every valid URL of the seed's domain that a
\* fetched page above max_depth links to has been requested.
C24_FailedFetchSkipped ==
    /\ [][(/\ Len(crawl'.statuses) = Len(crawl.statuses) + 1
           /\ crawl'.statuses[Len(crawl'.statuses)].status # 200)
          => /\ crawl'.pc = "running"
             /\ crawl'.found_urls_by_cert = crawl.found_urls_by_cert
             /\ crawl'.queue = crawl.queue
             /\ crawl'.visited = crawl.visited
             /\ crawl'.pages_crawled = crawl.pages_crawled]_vars
    /\ []((crawl.pc = "done" /\ crawl.pages_crawled < crawl.limit_pages) =>
            \A e \in crawl.edges :
                (/\ \E i \in GetIdx : /\ crawl.gets[i].url = e[1]
                                      /\ crawl.gets[i].depth < crawl.max_depth
                 /\ e[2] # None
                 /\ Contains(e[2].netloc, crawl.seed_url.netloc))
                => Fetched(e[2]))

\* the seed's page matched a keyword, the next request failed with 429 and
\* the one after it was answered 200: the evidence of the seed is kept
C24_Witness ==
    /\ Len(crawl.statuses) = 3
    /\ crawl.statuses[1].status = 200
    /\ crawl.statuses[2].status = 429
    /\ crawl.statuses[3].status = 200
    /\ crawl.found_urls_by_cert["ASC Cert"] = {normalize_url(crawl.statuses[1].url)}

\* C26: the step that brings a 200 page of another content type counts
\* the page and changes neither the result sets, nor the queue, nor the
\* scanned pages; the step that brings a PDF leaves the queue as it was.
C26_OtherTypeNotScanned ==
    [][Len(crawl'.statuses) = Len(crawl.statuses) + 1 =>
          /\ crawl'.statuses[Len(crawl'.statuses)].type = "other" =>
                /\ crawl'.pages_crawled = crawl.pages_crawled + 1
                /\ crawl'.found_urls_by_cert = crawl.found_urls_by_cert
                /\ crawl'.queue = crawl.queue
                /\ crawl'.scans = crawl.scans
          /\ crawl'.statuses[Len(crawl'.statuses)].type = "pdf" =>
                crawl'.queue = crawl.queue]_vars

\* the seed's page linked to two pages; the first was of another content
\* type and was counted, the second was a PDF; nothing else was queued
C26_Witness ==
    /\ Len(crawl.statuses) = 3
    /\ crawl.statuses[2].type = "other"
    /\ crawl.statuses[3].type = "pdf"
    /\ crawl.pages_crawled = 3
    /\ Len(crawl.scans) = 2
    /\ crawl.queue = <<>>


\* C25: every crawl ends and returns; and an item whose URL was visited
\* before is dropped when it is dequeued: it is not requested and nothing is
\* queued for it.
C25_CrawlTerminates ==
    /\ <>(crawl.pc = "done")
    /\ [][(/\ crawl.pc = "running"
           /\ crawl.queue # <<>>
           /\ clean_and_validate_url(Head(crawl.queue).url) \in crawl.visited)
          => /\ crawl'.queue = Tail(crawl.queue)
             /\ crawl'.gets = crawl.gets
             /\ crawl'.visited = crawl.visited
             /\ crawl'.pc = "running"]_vars

\* the crawl has returned; the subdomain page, linked from the seed and
\* from a page fetched before it, was queued twice and requested once, its
\* second item, of depth 2, dropped
C25_Witness ==
    /\ crawl.pc = "done"
    /\ crawl.last_depth = 2
    /\ Len(crawl.gets) = 3
    /\ crawl.gets[2].url = PageASlash
    /\ crawl.gets[3].url = PageSub
    /\ <<SeedOK, PageSub>> \in crawl.edges
    /\ <<PageASlash, PageSub>> \in crawl.edges
    /\ <<PageSub, SeedOK>> \in crawl.edges

-----------------------------------------------------------------------------
(* Crawls awaited one after the other, as  found_by_cert = await task  runs
   them (SpecRun) *)

AwaitTask_SharedVisited(prev, seed, max_depth, limit_pages) ==
    [NewCrawl(seed, max_depth, limit_pages) EXCEPT !.visited = prev.visited]

\* the call that  await task  starts: found_urls_by_cert, visited and queue
\* are locals, made anew whatever the call before (prev) left
AwaitTask(prev, seed, max_depth, limit_pages) ==
    NewCrawl(seed, max_depth, limit_pages)

InitRun ==
    /\ crawl \in {NewCrawl(s, RunDepth, RunLimit) : s \in Seeds}
    /\ awaited = [n |-> 1, visited |-> {}]
    /\ normIn = None /\ normPrev = None /\ normOut = None /\ normCalls = 0
    /\ retry = idleRetry
    /\ cell = <<>>
    /\ merges = <<>>
    /\ orch = idleOrch

\* the crawl has returned and the next task of the list is awaited
AwaitNext ==
    /\ crawl.pc = "done"
    /\ awaited.n < MaxCrawls
    /\ \E s \in Seeds : crawl' = AwaitTask(crawl, s, RunDepth, RunLimit)
    /\ awaited' = [n |-> awaited.n + 1,
                   visited |-> awaited.visited \cup crawl.visited]
    /\ UNCHANGED <<normVars, retry, cell, merges, orch>>

NextRun == CrawlLoopExit \/ CrawlDequeue \/ CrawlRespond \/ AwaitNext

SpecRun == InitRun /\ [][NextRun]_vars

\* the URLs the crawl has come to know by itself: its seed and the links on
\* the pages it fetched
OwnURLs ==
    {clean_and_validate_url(crawl.seed_url)} \cup {e[2] : e \in crawl.edges}

\* C19: the visited set, the queue and the requests of a crawl hold only
\* URLs the crawl found by itself, and a crawl with a valid seed requests
\* the seed first, whatever the crawls awaited before it have visited or
\* queued.
C19_CrawlIsLocal ==
    /\ crawl.visited \subseteq OwnURLs
    /\ \A i \in 1..Len(crawl.queue) :
          clean_and_validate_url(crawl.queue[i].url) \in OwnURLs
    /\ \A i \in GetIdx : crawl.gets[i].url \in OwnURLs
    /\ Len(crawl.gets) >= 1 =>
          crawl.gets[1].url = clean_and_validate_url(crawl.seed_url)
    /\ (crawl.pc = "done" /\ clean_and_validate_url(crawl.seed_url) # None) =>
          Len(crawl.gets) >= 1

\* a second crawl has requested its seed, which an earlier crawl of the run
\* had visited
C19_Witness ==
    /\ awaited.n = 2
    /\ crawl.pc = "done"
    /\ Len(crawl.gets) >= 1
    /\ crawl.gets[1].url \in awaited.visited

-----------------------------------------------------------------------------
(* fetch_with_retry *)

\* largest max_retries of a modelled call (the code's default is 3)
MaxRetries == 5

\* the cap of the exponential backoff, in seconds
BackoffCap == 8

PdfType == <<"application/", "pdf">>
HtmlType == <<"text/", "HTML">>

\* what one session.get (with the reading of the body) can bring: a
\* response, one of the two exceptions the function catches, or another
\* exception
RetryOutcomes ==
    {[kind |-> "response", status |-> 200, content_type |-> ct] :
        ct \in {PdfType, HtmlType}}
    \cup {[kind |-> "response", status |-> st, content_type |-> HtmlType] :
            st \in {404, 500, 429, 503}}
    \cup {[kind |-> k] : k \in {"TimeoutError", "ClientError", "Exception"}}

Result(content, content_type) == [content |-> content, content_type |-> content_type]

Pending == Result("pending", <<>>)

\* return None, None
NoneNone == Result("None", <<>>)

\* the locals on entry, with the history of the requests (gets), their
\* outcomes and the sleeps in milliseconds
NewRetry(max_retries) ==
    [pc |-> "running",
     max_retries |-> max_retries,
     attempt |-> 0,
     gets |-> 0,
     outcomes |-> <<>>,
     sleeps |-> <<>>,
     result |-> Pending]

RetryStatuses_With404 == {404, 429, 503}

\* elif resp.status in {429, 503}
RetryStatuses == {429, 503}

MoreAttempts_OneExtra(r) == r.attempt <= r.max_retries

\* for attempt in range(max_retries)
MoreAttempts(r) == r.attempt < r.max_retries

\* wait_time = min(2 ** attempt, 8)
Backoff_Uncapped(attempt) == 2 ^ attempt

Backoff(attempt) == IF 2 ^ attempt < BackoffCap THEN 2 ^ attempt ELSE BackoffCap

Return(r, result) == [r EXCEPT !.pc = "returned", !.result = result]

\* await asyncio.sleep(seconds), then the next attempt
SleepAndRetry(r, seconds) ==
    [r EXCEPT !.sleeps = Append(@, seconds * 1000), !.attempt = @ + 1]

\* the body of the for loop, for one outcome of session.get
Attempt(r, o) ==
    LET got == [r EXCEPT !.gets = @ + 1, !.outcomes = Append(@, o)]
    IN  CASE o.kind = "response" /\ o.status = 200 ->
                Return(got, Result(IF Contains(Lower(o.content_type), <<"pdf">>)
                                   THEN "bytes" ELSE "text",
                                   Lower(o.content_type)))
          [] o.kind = "response" /\ o.status # 200 /\ o.status \in RetryStatuses ->
                SleepAndRetry(got, Backoff(r.attempt))
          [] o.kind = "response" /\ o.status # 200 /\ o.status \notin RetryStatuses ->
                Return(got, NoneNone)
          [] o.kind \in {"TimeoutError", "ClientError"} ->
                IF r.attempt = r.max_retries - 1
                THEN Return(got, NoneNone)
                ELSE SleepAndRetry(got, 1)
          [] o.kind = "Exception" -> [got EXCEPT !.pc = "raised"]

\* the loop is over: return None, None
Exhausted(r) == Return(r, NoneNone)

InitRetry ==
    /\ retry \in {NewRetry(n) : n \in 0..MaxRetries}
    /\ normIn = None /\ normPrev = None /\ normOut = None /\ normCalls = 0
    /\ crawl = idleCrawl
    /\ cell = <<>>
    /\ merges = <<>>
    /\ awaited = noneAwaited
    /\ orch = idleOrch

RetryAttempt ==
    /\ retry.pc = "running"
    /\ MoreAttempts(retry)
    /\ \E o \in RetryOutcomes : retry' = Attempt(retry, o)
    /\ UNCHANGED <<normVars, crawl, cell, merges, awaited, orch>>

RetryExhausted ==
    /\ retry.pc = "running"
    /\ ~MoreAttempts(retry)
    /\ retry' = Exhausted(retry)
    /\ UNCHANGED <<normVars, crawl, cell, merges, awaited, orch>>

NextRetry == RetryAttempt \/ RetryExhausted

SpecRetry == InitRetry /\ [][NextRetry]_vars

\* the outcomes after which the function tries again
Failing(o) ==
    \/ o.kind \in {"TimeoutError", "ClientError"}
    \/ o.kind = "response" /\ o.status \in {429, 503}

\* C10: fetch_with_retry issues at most max_retries GET requests, and a call
\* that has ended after attempts that all ended in 429/503, a timeout or a
\* transport error has returned (None, None) and has not raised.
C10_RetryBounded ==
    /\ retry.gets <= retry.max_retries
    /\ (/\ retry.pc # "running"
        /\ \A i \in 1..Len(retry.outcomes) : Failing(retry.outcomes[i]))
       => (retry.pc = "returned" /\ retry.result = NoneNone)

\* a call with max_retries >= 3 that has used all its attempts, some ended
\* by a 429 and some by a timeout, and has returned (None, None)
C10_Witness ==
    /\ retry.pc = "returned"
    /\ retry.result = NoneNone
    /\ retry.max_retries >= 3
    /\ retry.gets = retry.max_retries
    /\ \A i \in 1..Len(retry.outcomes) : Failing(retry.outcomes[i])
    /\ \E i \in 1..Len(retry.outcomes) : retry.outcomes[i].kind = "TimeoutError"
    /\ \E i \in 1..Len(retry.outcomes) :
            /\ retry.outcomes[i].kind = "response"
            /\ retry.outcomes[i].status = 429


OutcomeIdx == 1..Len(retry.outcomes)

\* C11: a 429 or 503 response at attempt k (the outcome number k + 1) is
\* followed by a wait of 1, 2, 4 or, from attempt 3 on, 8 seconds, that is
\* min(2^k, 8); and a 200 response is the last outcome of the call, which
\* has returned the body (bytes for a PDF, else text) and the content-type
\* without a further wait or request.
C11_BackoffAndSuccess ==
    \A i \in OutcomeIdx :
        LET o == retry.outcomes[i]
        IN  /\ (o.kind = "response" /\ o.status \in {429, 503}) =>
                /\ Len(retry.sleeps) >= i
                /\ retry.sleeps[i] =
                      (CASE i = 1 -> 1000 [] i = 2 -> 2000 [] i = 3 -> 4000
                         [] OTHER -> 8000)
            /\ (o.kind = "response" /\ o.status = 200) =>
                /\ i = Len(retry.outcomes)
                /\ retry.gets = i
                /\ Len(retry.sleeps) = i - 1
                /\ retry.pc = "returned"
                /\ retry.result =
                      Result(IF o.content_type = PdfType THEN "bytes" ELSE "text",
                             Lower(o.content_type))

\* five attempts answered 429 or 503 and waited out for 1, 2, 4, 8 and, at
\* the cap, 8 seconds
C11_Witness ==
    /\ retry.max_retries = 5
    /\ retry.sleeps = <<1000, 2000, 4000, 8000, 8000>>
    /\ \A i \in 1..5 : /\ retry.outcomes[i].kind = "response"
                       /\ retry.outcomes[i].status \in {429, 503}

\* C12: a response with a status other than 200, 429 and 503 is the last
\* outcome of the call: no wait and no request follows it, and the call has
\* returned (None, None).
C12_OtherStatusFails ==
    \A i \in OutcomeIdx :
        LET o == retry.outcomes[i]
        IN  (o.kind = "response" /\ o.status \notin {200, 429, 503}) =>
                /\ i = Len(retry.outcomes)
                /\ retry.gets = i
                /\ Len(retry.sleeps) = i - 1
                /\ retry.pc = "returned"
                /\ retry.result = NoneNone

\* a 404 at the second attempt, after a timeout, has ended a call that had
\* attempts left
C12_Witness ==
    /\ retry.pc = "returned"
    /\ retry.max_retries >= 3
    /\ Len(retry.outcomes) = 2
    /\ retry.outcomes[1].kind = "TimeoutError"
    /\ retry.outcomes[2].kind = "response"
    /\ retry.outcomes[2].status = 404
    /\ retry.sleeps = <<1000>>

-----------------------------------------------------------------------------
(* The merge of a crawl's result into a certification cell                 *)
(* (process_df_with_sites, the body of  for cert_col, found_urls in ...)   *)
(*                                                                         *)
(* A cell is a string, held as the sequence of its characters, or NaN.     *)
(* The characters are ' ', ';' and the letters a and b, each letter        *)
(* standing for a run of URL characters.  The loop body is the same for    *)
(* every cert_col, so one cell is modelled.                                *)

\* longest pre-existing cell, in characters
MaxCellLen == 3

\* most URLs one crawl finds for the kind
MaxFound == 2

\* a cell that holds no string (a missing value of the input table)
NaN == <<"NaN">>

\* the code points of the characters
Ord(ch) ==
    CASE ch = " " -> 32
      [] ch = ";" -> 59
      [] ch = "a" -> 97
      [] ch = "b" -> 98

\* x < y on Python strings
StrLess(x, y) ==
    \E k \in 1..Len(y) :
        /\ k <= Len(x) + 1
        /\ SubSeq(x, 1, k - 1) = SubSeq(y, 1, k - 1)
        /\ (k = Len(x) + 1 \/ Ord(x[k]) < Ord(y[k]))

\* existing_val.split(";")
RECURSIVE split(_)
split(str) ==
    IF \A i \in 1..Len(str) : str[i] # ";"
    THEN <<str>>
    ELSE LET i == CHOOSE n \in 1..Len(str) :
                    str[n] = ";" /\ \A m \in 1..(n - 1) : str[m] # ";"
         IN  <<SubSeq(str, 1, i - 1)>> \o split(SubSeq(str, i + 1, Len(str)))

\* u.strip()
RECURSIVE strip(_)
strip(str) ==
    IF str # <<>> /\ str[1] = " " THEN strip(Tail(str))
    ELSE IF str # <<>> /\ str[Len(str)] = " " THEN strip(SubSeq(str, 1, Len(str) - 1))
    ELSE str

\* set(u.strip() for u in existing_val.split(";") if u.strip())
old_urls(existing_val) ==
    {strip(u) : u \in Range(split(existing_val))} \ {<<>>}

RECURSIVE sorted_Reversed(_)
sorted_Reversed(urls) ==
    IF urls = {} THEN <<>>
    ELSE LET m == CHOOSE x \in urls : \A y \in urls : x = y \/ StrLess(y, x)
         IN  <<m>> \o sorted_Reversed(urls \ {m})

\* sorted(merged)
RECURSIVE sorted(_)
sorted(urls) ==
    IF urls = {} THEN <<>>
    ELSE LET m == CHOOSE x \in urls : \A y \in urls : x = y \/ StrLess(x, y)
         IN  <<m>> \o sorted(urls \ {m})

\* ";".join(list)
RECURSIVE join(_)
join(list) ==
    IF list = <<>> THEN <<>>
    ELSE IF Len(list) = 1 THEN list[1]
    ELSE list[1] \o <<";">> \o join(Tail(list))

\* lines 335-341: the cell after the merge of found_urls
merge_cell(cell_val, found_urls) ==
    IF found_urls = {} THEN cell_val
    ELSE LET existing_val == IF cell_val = NaN THEN <<>> ELSE cell_val
         IN  join(sorted(old_urls(existing_val) \cup found_urls))

\* the URLs a crawl can find: a, b and a;b (a URL with a ';' in it)
FoundURLs == {<<"a">>, <<"b">>, <<"a", ";", "b">>}

FoundSets == {f \in SUBSET FoundURLs : Cardinality(f) <= MaxFound}

CellChars == {" ", ";", "a", "b"}

InitialCells == SeqsUpTo(CellChars, MaxCellLen) \cup {NaN}

InitMerge ==
    /\ cell \in InitialCells
    /\ merges = <<>>
    /\ normIn = None /\ normPrev = None /\ normOut = None /\ normCalls = 0
    /\ crawl = idleCrawl
    /\ retry = idleRetry
    /\ awaited = noneAwaited
    /\ orch = idleOrch

\* a crawl of the record has returned found_urls for the kind: the cell is
\* updated; merges records the cell before and after
MergeResult ==
    /\ Len(merges) < 2
    /\ \E found_urls \in FoundSets :
        /\ cell' = merge_cell(cell, found_urls)
        /\ merges' = Append(merges, [before |-> cell,
                                     found |-> found_urls,
                                     after |-> merge_cell(cell, found_urls)])
    /\ UNCHANGED <<normVars, crawl, retry, awaited, orch>>

NextMerge == MergeResult

SpecMerge == InitMerge /\ [][NextMerge]_vars

\* C7: merging the same result twice leaves the cell as merging it once
\* did, and two results merged in either order give the same cell.
C7_MergeIdempotentCommutative ==
    Len(merges) = 2 =>
        /\ merges[1].found = merges[2].found => merges[2].after = merges[1].after
        /\ cell = merge_cell(merge_cell(merges[1].before, merges[2].found),
                             merges[1].found)

\* the URLs stored in a cell: its runs of characters between ';' signs,
\* without the blanks around them, the empty ones left out
StoredURLs(cell_val) ==
    IF cell_val = NaN THEN {}
    ELSE {strip(SubSeq(cell_val, i, j)) :
            <<i, j>> \in {p \in (1..(Len(cell_val) + 1)) \X (0..Len(cell_val)) :
                /\ p[1] <= p[2] + 1
                /\ \A n \in p[1]..p[2] : cell_val[n] # ";"
                /\ (p[1] = 1 \/ cell_val[p[1] - 1] = ";")
                /\ (p[2] = Len(cell_val) \/ cell_val[p[2] + 1] = ";")}}
         \ {<<>>}

\* cell_val is the ';'-joined, ascending, duplicate-free list of urls
IsSortedJoinOf(cell_val, urls) ==
    \E list \in [1..Cardinality(urls) -> urls] :
        /\ \A i \in 1..(Len(list) - 1) : StrLess(list[i], list[i + 1])
        /\ cell_val = join(list)

\* cell_val is a ';'-joined list of URLs: no blanks and no empty piece
IsURLList(cell_val) ==
    /\ cell_val # NaN
    /\ \A i \in 1..Len(cell_val) : cell_val[i] # " "
    /\ cell_val # <<>> => (cell_val[1] # ";" /\ cell_val[Len(cell_val)] # ";")
    /\ \A i \in 1..(Len(cell_val) - 1) : ~(cell_val[i] = ";" /\ cell_val[i + 1] = ";")

\* C8 as stated: after every merge into a cell that held a ';'-joined list
\* of URLs, whether or not the crawl found a URL for the kind, the cell is
\* the ';'-joined sorted duplicate-free union of the URLs stored in it
\* before and the URLs found.
C8_CellIsSortedUnion ==
    \A i \in 1..Len(merges) :
        IsURLList(merges[i].before) =>
        IsSortedJoinOf(merges[i].after,
                       StoredURLs(merges[i].before) \cup merges[i].found)

\* C8 as amended: that holds after a merge of at least one found URL, and a
\* merge of no found URL leaves the cell as it was.
C8_CellIsSortedUnionWhenFound ==
    \A i \in 1..Len(merges) :
        IF merges[i].found # {}
        THEN IsSortedJoinOf(merges[i].after,
                            StoredURLs(merges[i].before) \cup merges[i].found)
        ELSE merges[i].after = merges[i].before

\* the cell held a and the crawl found b: the cell is now a;b
C8_Witness ==
    /\ merges # <<>>
    /\ merges[Len(merges)].before = <<"a">>
    /\ merges[Len(merges)].found = {<<"b">>}
    /\ cell = <<"a", ";", "b">>

-----------------------------------------------------------------------------
(* process_df_with_sites: the records are cleaned, cut into batches, and the
   crawls of a batch are awaited one by one (SpecBatch) *)

\* most records of a run whose sites behave in every way
MaxSites == 5

\* the records of the one long run, enough for a batch of BatchCap tasks
ManySites == 41

\* batch_size = min(10, math.ceil(len(df_with_sites) / 4))
BatchCap == 10

BatchDivisor == 4

ceil(n, d) == (n + d - 1) \div d

batch_size_Uncapped(n) == ceil(n, BatchDivisor)

batch_size(n) ==
    IF ceil(n, BatchDivisor) < BatchCap THEN ceil(n, BatchDivisor) ELSE BatchCap

\* one record of the frame: its index label, its 'Company website' and its
\* certification cells
Row(idx, website, certs) == [idx |-> idx, website |-> website, certs |-> certs]

\* what awaiting the crawl of a site brings: an exception, or found_by_cert
NothingFound == [k \in Kinds |-> {}]

AscFound == [k \in Kinds |-> IF k = "ASC Cert" THEN {<<"a">>} ELSE {}]

SiteBehaviours ==
    {[raises |-> TRUE, found |-> NothingFound],
     [raises |-> FALSE, found |-> NothingFound],
     [raises |-> FALSE, found |-> AscFound]}

\* the cells main() hands over: strings, here "b" under 'ASC Cert'
InitialCerts == [k \in Kinds |-> IF k = "ASC Cert" THEN <<"b">> ELSE <<>>]

\* the frames of up to MaxSites records, at most one of them with a
\* website that is no URL, over sites of every behaviour
SmallInputs ==
    UNION {{[df |-> [i \in 1..n |->
                        Row(i, IF i = bad THEN Javascript ELSE SeedOK, InitialCerts)],
             web |-> w] :
                bad \in 0..n, w \in [1..n -> SiteBehaviours]} :
           n \in 0..MaxSites}

\* ManySites records with valid websites, on each of which the crawl finds
\* an ASC page
ManyInput ==
    [df |-> [i \in 1..ManySites |-> Row(i, SeedOK, InitialCerts)],
     web |-> [i \in 1..ManySites |-> [raises |-> FALSE, found |-> AscFound]]]

\* the locals on entry, with the frame as handed over (input), the state of
\* each record's crawl by index label (status) and the most crawls that
\* were running at once (peak)
NewOrch(input) ==
    [pc |-> "start",
     input |-> input.df,
     web |-> input.web,
     df |-> input.df,
     batch_size |-> 0,
     start_idx |-> 0,
     tasks |-> <<>>,
     pos |-> 0,
     found_by_cert |-> NothingFound,
     status |-> [i \in 1..Len(input.df) |-> "listed"],
     peak |-> 0]

\* apply(clean_and_validate_url), dropna, batch_size, and the first
\* evaluation of range(0, len(df_with_sites), batch_size), which raises
\* ValueError for a step of 0
Start(o) ==
    LET cleaned == [i \in 1..Len(o.df) |->
                        [o.df[i] EXCEPT !.website = clean_and_validate_url(@)]]
        kept == SelectSeq(cleaned, LAMBDA r : r.website # None)
        size == batch_size(Len(kept))
    IN  [o EXCEPT !.df = kept,
                  !.batch_size = size,
                  !.start_idx = 0,
                  !.status = [i \in DOMAIN @ |->
                                IF cleaned[i].website = None THEN "dropped" ELSE @[i]],
                  !.pc = IF size = 0 THEN "raised" ELSE "queuing"]

\* batch = df_with_sites.iloc[start_idx:start_idx + batch_size]; one
\* coroutine object per record of the batch is put on the list, none runs
QueueTasks(o) ==
    LET last == IF o.start_idx + o.batch_size < Len(o.df)
                THEN o.start_idx + o.batch_size ELSE Len(o.df)
        batch == SubSeq(o.df, o.start_idx + 1, last)
        ids == [i \in 1..Len(batch) |-> batch[i].idx]
    IN  [o EXCEPT !.tasks = ids,
                  !.pos = 1,
                  !.pc = "awaiting",
                  !.status = [i \in DOMAIN @ |->
                                IF i \in Range(ids) THEN "created" ELSE @[i]]]

\* the crawls running now
Running(o) == {i \in DOMAIN o.status : o.status[i] = "running"}

\* found_by_cert = await task: the coroutine starts to run
Await(o) ==
    LET started == [o EXCEPT !.status[o.tasks[o.pos]] = "running"]
    IN  [started EXCEPT !.peak = IF Cardinality(Running(started)) > @
                                 THEN Cardinality(Running(started)) ELSE @]

\* the awaited crawl returns its found_urls_by_cert
Returns(o) ==
    [o EXCEPT !.status[o.tasks[o.pos]] = "returned",
              !.found_by_cert = o.web[o.tasks[o.pos]].found,
              !.pc = "merging"]

Except_Abort(o) ==
    [o EXCEPT !.status[o.tasks[o.pos]] = "raised", !.pc = "raised"]

Except_ClearsRow(o) ==
    [o EXCEPT !.status[o.tasks[o.pos]] = "raised",
              !.pos = @ + 1,
              !.df = [p \in DOMAIN @ |->
                        IF @[p].idx = o.tasks[o.pos]
                        THEN [@[p] EXCEPT !.certs = [k \in Kinds |-> <<>>]]
                        ELSE @[p]]]

\* except Exception as e: the failure is printed and the loop goes on with
\* the next task
Except(o) ==
    [o EXCEPT !.status[o.tasks[o.pos]] = "raised", !.pos = @ + 1]

at_Position(df, idx) == idx

\* df_with_sites.at[idx, cert_col]: the position of the record labelled idx
at(df, idx) == CHOOSE p \in 1..Len(df) : df[p].idx = idx

\* for cert_col, found_urls in found_by_cert.items(): the cells of the
\* record are merged with what the crawl found
Merge(o) ==
    [o EXCEPT !.df[at(o.df, o.tasks[o.pos])].certs =
                    [k \in Kinds |-> merge_cell(@[k], o.found_by_cert[k])],
              !.status[o.tasks[o.pos]] = "merged",
              !.pos = @ + 1,
              !.pc = "awaiting"]

\* the list of tasks is done: range() gives the next start_idx, or the
\* loop ends and df_with_sites is returned
BatchEnd(o) ==
    [o EXCEPT !.start_idx = @ + o.batch_size,
              !.pc = IF o.start_idx + o.batch_size >= Len(o.df)
                     THEN "done" ELSE "queuing"]

InitBatch ==
    /\ orch \in {NewOrch(input) : input \in SmallInputs \cup {ManyInput}}
    /\ normIn = None /\ normPrev = None /\ normOut = None /\ normCalls = 0
    /\ crawl = idleCrawl
    /\ retry = idleRetry
    /\ cell = <<>>
    /\ merges = <<>>
    /\ awaited = noneAwaited

OrchStart ==
    /\ orch.pc = "start"
    /\ orch' = Start(orch)
    /\ UNCHANGED <<normVars, crawl, retry, cell, merges, awaited>>

OrchQueueTasks ==
    /\ orch.pc = "queuing"
    /\ orch' = QueueTasks(orch)
    /\ UNCHANGED <<normVars, crawl, retry, cell, merges, awaited>>

OrchAwait ==
    /\ orch.pc = "awaiting"
    /\ orch.pos <= Len(orch.tasks)
    /\ orch.status[orch.tasks[orch.pos]] = "created"
    /\ orch' = Await(orch)
    /\ UNCHANGED <<normVars, crawl, retry, cell, merges, awaited>>

OrchCrawlReturns ==
    /\ orch.pc = "awaiting"
    /\ orch.pos <= Len(orch.tasks)
    /\ orch.status[orch.tasks[orch.pos]] = "running"
    /\ ~orch.web[orch.tasks[orch.pos]].raises
    /\ orch' = Returns(orch)
    /\ UNCHANGED <<normVars, crawl, retry, cell, merges, awaited>>

OrchCrawlRaises ==
    /\ orch.pc = "awaiting"
    /\ orch.pos <= Len(orch.tasks)
    /\ orch.status[orch.tasks[orch.pos]] = "running"
    /\ orch.web[orch.tasks[orch.pos]].raises
    /\ orch' = Except(orch)
    /\ UNCHANGED <<normVars, crawl, retry, cell, merges, awaited>>

OrchMerge ==
    /\ orch.pc = "merging"
    /\ orch' = Merge(orch)
    /\ UNCHANGED <<normVars, crawl, retry, cell, merges, awaited>>

OrchBatchEnd ==
    /\ orch.pc = "awaiting"
    /\ orch.pos > Len(orch.tasks)
    /\ orch' = BatchEnd(orch)
    /\ UNCHANGED <<normVars, crawl, retry, cell, merges, awaited>>

NextBatch ==
    \/ OrchStart
    \/ OrchQueueTasks
    \/ OrchAwait
    \/ OrchCrawlReturns
    \/ OrchCrawlRaises
    \/ OrchMerge
    \/ OrchBatchEnd

SpecBatch == InitBatch /\ [][NextBatch]_vars

-----------------------------------------------------------------------------
(* Properties of the run (SpecBatch) *)

Labels == DOMAIN orch.status

\* the certification cells of the record labelled idx
CertsOf(o, idx) ==
    IF \E p \in 1..Len(o.df) : o.df[p].idx = idx
    THEN o.df[CHOOSE p \in 1..Len(o.df) : o.df[p].idx = idx].certs
    ELSE o.input[idx].certs

\* the cells of a record whose crawl returned: "a" joined to the "b" under
\* 'ASC Cert' when the crawl found the ASC page, else as handed over
MergedCerts(idx) ==
    IF orch.web[idx].found["ASC Cert"] = {} THEN orch.input[idx].certs
    ELSE [orch.input[idx].certs EXCEPT !["ASC Cert"] = <<"a", ";", "b">>]

Eligible(idx) == orch.status[idx] # "dropped"

\* C13: a crawl that raises does not end the run, and when the run has
\* ended every eligible record whose crawl did not raise has been crawled
\* and merged, in the batch of the failed crawl and in the later ones.
C13_RunGoesOn ==
    /\ (\E idx \in Labels : orch.status[idx] = "raised") => orch.pc # "raised"
    /\ orch.pc = "done" =>
          \A idx \in Labels :
              (Eligible(idx) /\ ~orch.web[idx].raises) =>
                  /\ orch.status[idx] = "merged"
                  /\ CertsOf(orch, idx) = MergedCerts(idx)

\* the run has ended; the first crawl of a batch of two raised, the second
\* crawl of that batch and a crawl of the next batch found the ASC page and
\* were merged
C13_Witness ==
    /\ orch.pc = "done"
    /\ orch.batch_size = 2
    /\ orch.status[1] = "raised"
    /\ orch.status[2] = "merged"
    /\ orch.status[3] = "merged"
    /\ CertsOf(orch, 2)["ASC Cert"] = <<"a", ";", "b">>
    /\ CertsOf(orch, 3)["ASC Cert"] = <<"a", ";", "b">>

\* C14: every cell of a record whose crawl raised has the value it was
\* handed over with.
C14_FailedRecordUntouched ==
    \A idx \in Labels :
        orch.status[idx] = "raised" => CertsOf(orch, idx) = orch.input[idx].certs

\* the run has ended; the crawl of the second record raised, its 'ASC Cert'
\* cell is still "b", and the cell of the first record has been merged
C14_Witness ==
    /\ orch.pc = "done"
    /\ Len(orch.input) >= 2
    /\ orch.status[2] = "raised"
    /\ CertsOf(orch, 2)["ASC Cert"] = <<"b">>
    /\ CertsOf(orch, 1)["ASC Cert"] = <<"a", ";", "b">>

\* C15: in a run that has ended and whose batches hold two or more
\* records, two crawls have been running at once.
C15_CrawlsOverlap ==
    (orch.pc = "done" /\ orch.batch_size >= 2) => orch.peak >= 2

\* min(10, ceil(n / 4)) for the n eligible records
SizeOfBatches ==
    IF Len(orch.df) > 40 THEN 10
    ELSE CHOOSE b \in 0..10 : 4 * b >= Len(orch.df) /\ 4 * (b - 1) < Len(orch.df)

\* the crawls launched and not yet done with
InFlight == {idx \in Labels : orch.status[idx] \in {"created", "running", "returned"}}

\* C16: a crawl of a later batch has started only if every crawl of the
\* earlier batches has completed, and the crawls in flight number at most
\* min(10, ceil(n / 4)), so at most 10.
C16_BatchBarrier ==
    /\ \A p, q \in 1..Len(orch.df) :
          (/\ (p - 1) \div SizeOfBatches < (q - 1) \div SizeOfBatches
           /\ orch.status[orch.df[q].idx] \in {"running", "returned", "merged", "raised"})
          => orch.status[orch.df[p].idx] \in {"merged", "raised"}
    /\ Cardinality(InFlight) <= SizeOfBatches
    /\ Cardinality(InFlight) <= 10

\* a full batch of ten crawls is in flight, the first of them running, in
\* the second batch of a run over more than forty records
C16_Witness ==
    /\ Len(orch.df) > 40
    /\ orch.start_idx = 10
    /\ Cardinality(InFlight) = 10
    /\ orch.status[11] = "running"
    /\ \A idx \in 1..10 : orch.status[idx] = "merged"

\* C18: a step changes the cells of a record only when it is the merge
\* step of the orchestrator for that record, taken after the record's
\* crawl has returned, and it is the one merge of that record.
C18_WritesAfterCrawl ==
    [][\A idx \in Labels :
          CertsOf(orch', idx) # CertsOf(orch, idx) =>
              /\ orch.pc = "merging"
              /\ orch.tasks[orch.pos] = idx
              /\ orch.status[idx] = "returned"
              /\ orch'.status[idx] = "merged"]_vars

\* the first record, a website that is no URL, was dropped; the second has
\* been merged while the crawl of the third, of the same batch, has not
\* started
C18_Witness ==
    /\ Len(orch.input) >= 5
    /\ orch.status[1] = "dropped"
    /\ orch.status[2] = "merged"
    /\ orch.status[3] = "created"
    /\ CertsOf(orch, 2)["ASC Cert"] = <<"a", ";", "b">>

\* C27: when no record has a valid website, the call ends normally, with
\* no batch formed and no crawl launched.
C27_NoEligibleCompletes ==
    (orch.pc # "start" /\ \A idx \in Labels : orch.status[idx] = "dropped") =>
        /\ orch.pc = "done"
        /\ orch.tasks = <<>>
        /\ orch.df = <<>>

====
